---- MODULE Spec2Model ----
(***************************************************************************)
(* A model of the bundle core of troubleshoot-live:                        *)
(*   - pkg/bundle/layout.go      the Layout resolver and its fallback      *)
(*   - pkg/bundle (resources)    LoadResourcesFromFile / parseJSONList,    *)
(*                               LoadConfigMap / LoadSecret                *)
(*   - pkg/proxy/logs.go         LogsHandler (log path resolution and the  *)
(*                               timestamp back-fill)                      *)
(* logs.go holds two versions of LogsHandler; the later one (lines         *)
(* 153-280) is the one modelled.                                           *)
(* Paths and log bytes are TLA+ strings; a resource file is an abstract    *)
(* document (its syntax, its top-level shape, its kind and its items).     *)
(***************************************************************************)
EXTENDS Integers, Sequences, FiniteSets, TLC

VARIABLES
    cfgFile,    \* the configuration document at configPath (layout.go)
    layoutRes,  \* what LoadLayoutFromConfig returned
    resFile,    \* the file handed to LoadResourcesFromFile
    loadRes,    \* what LoadResourcesFromFile returned
    podsFile,   \* the bundle's ClusterResources/pods/<namespace>.yaml
    logFiles,   \* the bundle's log files: path -> content
    tz,         \* the process's local zone, minutes east of UTC
    resp,       \* the last response LogsHandler wrote
    data,       \* input of the timestamp back-fill taken alone
    timestamps, \* the timestamps query parameter of that run
    pass1,      \* the back-fill applied once
    pass2,      \* the back-fill applied to its own output
    bundlePath, \* the bundlePath argument of LoadLayoutWithFallback
    bundleCfg,  \* what is at <bundlePath>/config.yaml
    homeCfg,    \* what is at ~/.troubleshoot-live/config.yaml
    fallbackRes,\* what LoadLayoutWithFallback returned
    cmFiles,    \* two files in the compact configmap / secret format
    cmRes,      \* what LoadConfigMap and LoadSecret returned for each
    calls,      \* the calls in flight: request, position, response written
    frames      \* the local variables of each call in flight

vars == <<cfgFile, layoutRes, resFile, loadRes, podsFile, logFiles, tz, resp,
          data, timestamps, pass1, pass2, bundlePath, bundleCfg, homeCfg,
          fallbackRes, cmFiles, cmRes, calls, frames>>

layoutVars == <<cfgFile, layoutRes>>
loadVars   == <<resFile, loadRes>>
logsVars   == <<podsFile, logFiles, resp>>
normVars   == <<data, timestamps, pass1, pass2>>
fallbackVars == <<bundlePath, bundleCfg, homeCfg, fallbackRes>>
compactVars == <<cmFiles, cmRes>>
concVars   == <<calls, frames>>

Absent == "<absent>"  \* a key a document does not hold

(***************************************************************************)
(* Bounds of the model.                                                    *)
(***************************************************************************)
MaxSkip == 2       \* longest skip list of a configuration document
MaxDocItems == 2   \* most items of a resource file
MaxPods == 2       \* most items of the namespace's pod list
MaxLogFiles == 2   \* most log files of a bundle
MaxLines == 2      \* most lines of a log taken alone
MaxCalls == 2      \* most calls in flight at once

(***************************************************************************)
(* Helpers on sequences and strings.                                       *)
(***************************************************************************)
SeqsUpTo(S, n) == UNION {[1..k -> S] : k \in 0..n}

\* filepath.Join of two clean elements: an empty element is ignored
Join(a, b) == IF a = "" THEN b ELSE IF b = "" THEN a ELSE a \o "/" \o b

RECURSIVE JoinAll(_)
JoinAll(parts) ==
    IF Len(parts) = 1 THEN parts[1]
    ELSE Join(JoinAll(SubSeq(parts, 1, Len(parts) - 1)), parts[Len(parts)])

Digit(n) ==
    CASE n = 0 -> "0" [] n = 1 -> "1" [] n = 2 -> "2" [] n = 3 -> "3"
      [] n = 4 -> "4" [] n = 5 -> "5" [] n = 6 -> "6" [] n = 7 -> "7"
      [] n = 8 -> "8" [] n = 9 -> "9"

\* fmt.Sprintf("%d", n)
RECURSIVE Itoa(_)
Itoa(n) ==
    IF n < 0 THEN "-" \o Itoa(0 - n)
    ELSE IF n < 10 THEN Digit(n)
    ELSE Itoa(n \div 10) \o Digit(n % 10)

(***************************************************************************)
(* pkg/bundle/layout.go                                                    *)
(***************************************************************************)
DefaultClusterInfo      == "k8s/cluster-info"
DefaultClusterResources == "k8s/cluster-resources"
DefaultPodLogs          == "k8s/pod-logs"
DefaultPreviousPodLogs  == "k8s/previous-pod-logs"
DefaultConfigMaps       == "k8s/cluster-resources/configmaps"
DefaultSecrets          == "k8s/cluster-resources/secrets"

DefaultSkipResources ==
    << "custom-resource-definitions.json", "pod-disruption-budgets-info.json",
       "resources.json", "groups.json", "namespaces.json",
       "mutatingwebhookconfigurations.yaml",
       "validatingwebhookconfigurations.yaml" >>

DefaultSkipDirs == << "apiservices", "auth-cani-list", "pod-disruption-budgets" >>

PathFields == {"clusterInfo", "clusterResources", "podLogs", "previousPodLogs",
               "configMaps", "secrets"}
SkipFields == {"resources", "dirs"}

\* yaml.Unmarshal into LayoutConfig: a key the document does not hold leaves
\* the field at its zero value.
UnmarshalLayoutConfig(doc) ==
    [Paths |-> [f \in PathFields |->
                    IF doc.paths[f] = Absent THEN "" ELSE doc.paths[f]],
     Skip  |-> [f \in SkipFields |->
                    IF doc.skip[f] = <<Absent>> THEN <<>> ELSE doc.skip[f]]]

\* The Layout values: a nil Layout, defaultLayout{} and configLayout{config}.
nilLayout == [type |-> "nil"]
defaultLayout == [type |-> "defaultLayout"]
configLayout(config) == [type |-> "configLayout", config |-> config]

ClusterInfo(l) ==
    IF l.type = "configLayout" /\ l.config.Paths.clusterInfo # ""
    THEN l.config.Paths.clusterInfo ELSE DefaultClusterInfo

ClusterResources(l) ==
    IF l.type = "configLayout" /\ l.config.Paths.clusterResources # ""
    THEN l.config.Paths.clusterResources ELSE DefaultClusterResources

PodLogs(l) ==
    IF l.type = "configLayout" /\ l.config.Paths.podLogs # ""
    THEN l.config.Paths.podLogs ELSE DefaultPodLogs

PreviousPodLogs(l) ==
    IF l.type = "configLayout" /\ l.config.Paths.previousPodLogs # ""
    THEN l.config.Paths.previousPodLogs ELSE DefaultPreviousPodLogs

ConfigMaps(l) ==
    IF l.type = "configLayout" /\ l.config.Paths.configMaps # ""
    THEN l.config.Paths.configMaps ELSE DefaultConfigMaps

Secrets(l) ==
    IF l.type = "configLayout" /\ l.config.Paths.secrets # ""
    THEN l.config.Paths.secrets ELSE DefaultSecrets

SkipResourcesMerged(l) ==
    IF l.type = "configLayout" /\ Len(l.config.Skip.resources) > 0
    THEN DefaultSkipResources \o l.config.Skip.resources
    ELSE DefaultSkipResources

SkipResources(l) ==
    IF l.type = "configLayout" /\ Len(l.config.Skip.resources) > 0
    THEN l.config.Skip.resources ELSE DefaultSkipResources

SkipDirs(l) ==
    IF l.type = "configLayout" /\ Len(l.config.Skip.dirs) > 0
    THEN l.config.Skip.dirs ELSE DefaultSkipDirs

\* The configuration documents of the model: every path key is absent, empty
\* or overridden; every skip list is absent or a list of up to MaxSkip names.
CustomPath(f) == "custom/" \o f
SkipValues == {<<Absent>>} \cup SeqsUpTo({"my-resource.yaml"}, MaxSkip)

ConfigDocs ==
    {[paths |-> [f \in PathFields |->
                    IF c[f] = "override" THEN CustomPath(f) ELSE c[f]],
      skip  |-> s] :
        c \in [PathFields -> {Absent, "", "override"}],
        s \in [SkipFields -> SkipValues]}

\* What is at configPath: nothing, a file that cannot be read, a file that
\* is not YAML for a LayoutConfig, or a document.
ConfigFiles ==
    {[state |-> "absent"], [state |-> "unreadable"], [state |-> "malformed"]}
    \cup {[state |-> "document", doc |-> d] : d \in ConfigDocs}

\* a variant that reports a missing file as a read failure
LoadLayoutFromConfigNoDefault(file) ==
    IF file.state \in {"absent", "unreadable"}
        THEN [layout |-> nilLayout, err |-> "failed to read config file"]
    ELSE IF file.state = "malformed"
        THEN [layout |-> nilLayout, err |-> "failed to parse config file"]
    ELSE [layout |-> configLayout(UnmarshalLayoutConfig(file.doc)), err |-> ""]

LoadLayoutFromConfig(file) ==
    IF file.state = "absent"
        THEN [layout |-> defaultLayout, err |-> ""]
    ELSE IF file.state = "unreadable"
        THEN [layout |-> nilLayout, err |-> "failed to read config file"]
    ELSE IF file.state = "malformed"
        THEN [layout |-> nilLayout, err |-> "failed to parse config file"]
    ELSE [layout |-> configLayout(UnmarshalLayoutConfig(file.doc)), err |-> ""]

\* lines 199-202: file is what is at filepath.Join(bundlePath, "config.yaml")
LoadLayoutFromBundleDir(file) == LoadLayoutFromConfig(file)

\* lines 205-213: home is what is at ~/.troubleshoot-live/config.yaml, or the
\* state "nohome" when os.UserHomeDir fails
LoadLayoutFromHome(home) ==
    IF home.state = "nohome"
        THEN [layout |-> nilLayout, err |-> "failed to get user home directory"]
    ELSE LoadLayoutFromConfig(home)

\* lines 219-236
LoadLayoutWithFallback(path, bundle, home) ==
    LET bundleLayout == LoadLayoutFromBundleDir(bundle)
        homeLayout == LoadLayoutFromHome(home)
    IN  IF path # "" /\ bundleLayout.err = "" /\ bundleLayout.layout.type # "nil"
            THEN [layout |-> bundleLayout.layout, err |-> ""]
        ELSE IF homeLayout.err = "" /\ homeLayout.layout.type # "nil"
            THEN [layout |-> homeLayout.layout, err |-> ""]
        ELSE [layout |-> defaultLayout, err |-> ""]

\* The configuration documents of the fallback runs: a document overrides
\* at least one of three path keys, with values that tell the two levels
\* apart.
FallbackKeys == {"clusterInfo", "podLogs", "secrets"}
FallbackDocs(prefix) ==
    {[paths |-> [f \in PathFields |-> IF f \in over THEN prefix \o f ELSE Absent],
      skip  |-> [f \in SkipFields |-> <<Absent>>]] :
        over \in (SUBSET FallbackKeys) \ {{}}}

FallbackFiles(prefix) ==
    {[state |-> "absent"], [state |-> "unreadable"], [state |-> "malformed"]}
    \cup {[state |-> "document", doc |-> d] : d \in FallbackDocs(prefix)}

(***************************************************************************)
(* pkg/proxy/logs.go: the timestamp back-fill of LogsHandler.              *)
(***************************************************************************)
\* bytes.Split(data, []byte("\n")): always at least one element
RECURSIVE Split(_)
Split(s) ==
    LET RECURSIVE cut(_)
        cut(i) == IF i > Len(s) THEN 0
                  ELSE IF SubSeq(s, i, i) = "\n" THEN i ELSE cut(i + 1)
        at == cut(1)
    IN  IF at = 0 THEN <<s>>
        ELSE <<SubSeq(s, 1, at - 1)>> \o Split(SubSeq(s, at + 1, Len(s)))

\* bytes.Join(lines, []byte("\n"))
RECURSIVE JoinLines(_)
JoinLines(lines) ==
    IF Len(lines) = 1 THEN lines[1]
    ELSE lines[1] \o "\n" \o JoinLines(Tail(lines))

IsDigit(c) == c \in {"0", "1", "2", "3", "4", "5", "6", "7", "8", "9"}

At(s, i) == IF i <= Len(s) THEN SubSeq(s, i, i) ELSE ""

Digits(s, from, to) == \A i \in from..to : IsDigit(At(s, i))

\* ^\d{4}-\d{2}-\d{2}T\d{2}:\d{2}:\d{2}(\.\d{6})?Z<space> matched against a line
timestampPrefixRegexp(line) ==
    /\ Digits(line, 1, 4) /\ At(line, 5) = "-"
    /\ Digits(line, 6, 7) /\ At(line, 8) = "-"
    /\ Digits(line, 9, 10) /\ At(line, 11) = "T"
    /\ Digits(line, 12, 13) /\ At(line, 14) = ":"
    /\ Digits(line, 15, 16) /\ At(line, 17) = ":"
    /\ Digits(line, 18, 19)
    /\ \/ At(line, 20) = "Z" /\ At(line, 21) = " "
       \/ /\ At(line, 20) = "." /\ Digits(line, 21, 26)
          /\ At(line, 27) = "Z" /\ At(line, 28) = " "

TwoDigits(n) == IF n < 10 THEN "0" \o Digit(n) ELSE Itoa(n)

\* time.UnixMicro(0).Format(time.RFC3339Nano): UnixMicro returns the instant
\* in the process's local zone, and the layout ends in Z07:00, which prints
\* "Z" for a zero offset and the signed offset otherwise. The fraction is
\* zero and .999999999 drops it.
zeroTime(zone) ==
    LET minuteOfDay == zone % 1440
        dateOf == IF zone >= 0 THEN "1970-01-01" ELSE "1969-12-31"
        clock == TwoDigits(minuteOfDay \div 60) \o ":"
                 \o TwoDigits(minuteOfDay % 60) \o ":00"
        abs == IF zone < 0 THEN 0 - zone ELSE zone
        offset == IF zone = 0 THEN "Z"
                  ELSE (IF zone < 0 THEN "-" ELSE "+")
                       \o TwoDigits(abs \div 60) \o ":" \o TwoDigits(abs % 60)
    IN  dateOf \o "T" \o clock \o offset

\* a variant that decides line by line instead of on the first line
NormalizeTimestampsPerLine(d, ts, zone) ==
    IF ts = "true"
    THEN LET lines == Split(d)
         IN  JoinLines([i \in 1..Len(lines) |->
                           IF timestampPrefixRegexp(lines[i]) THEN lines[i]
                           ELSE zeroTime(zone) \o " " \o lines[i]])
    ELSE d

\* lines 261-273: the payload written for file bytes d
NormalizeTimestamps(d, ts, zone) ==
    IF ts = "true"
    THEN LET lines == Split(d)
         IN  IF ~timestampPrefixRegexp(lines[1])
             THEN JoinLines([i \in 1..Len(lines) |->
                                zeroTime(zone) \o " " \o lines[i]])
             ELSE d
    ELSE d

(***************************************************************************)
(* pkg/bundle: LoadResourcesFromFile and parseJSONList.                    *)
(*                                                                         *)
(* A resource file is a document: the syntax its bytes are written in, its *)
(* top-level shape, the kind of a top-level object, and its items. An item *)
(* is an object (a pod document) or a scalar.                              *)
(***************************************************************************)
ContainerStatus(name, restartCount) ==
    [Name |-> name, RestartCount |-> restartCount]

PodDoc(kind, name, uid, hash, statuses) ==
    [kind |-> kind, name |-> name, uid |-> uid, configHash |-> hash,
     containerStatuses |-> statuses, wellTyped |-> TRUE]

ScalarItem == [scalar |-> TRUE]
IsObject(item) == "name" \in DOMAIN item

Doc(syntax, top, kind, hasItems, items) ==
    [syntax |-> syntax, top |-> top, kind |-> kind, hasItems |-> hasItems,
     items |-> items]

\* afero.ReadFile: a file is missing/unreadable or holds a document
NoFile == [readable |-> FALSE]
File(doc) == [readable |-> TRUE, doc |-> doc]

HasSuffix(s, suffix) ==
    /\ Len(s) >= Len(suffix)
    /\ SubSeq(s, Len(s) - Len(suffix) + 1, Len(s)) = suffix

TrimSuffix(s, suffix) ==
    IF HasSuffix(s, suffix) THEN SubSeq(s, 1, Len(s) - Len(suffix)) ELSE s

\* The index of the first item that is no object, 0 if every item is one
RECURSIVE FirstScalar(_, _)
FirstScalar(items, i) ==
    IF i > Len(items) THEN 0
    ELSE IF ~IsObject(items[i]) THEN i ELSE FirstScalar(items, i + 1)

\* Unmarshal into *unstructured.UnstructuredList. decodeToList fills
\* list.Items item by item, an item without kind taking the list's kind less
\* its "List" suffix, and only then is a list without kind refused: Items is
\* what the call leaves in the list, error or not.
UnmarshalList(doc, parses) ==
    IF ~parses THEN [err |-> "invalid syntax", Items |-> <<>>]
    ELSE IF doc.top # "object"
        THEN [err |-> "cannot unmarshal into list", Items |-> <<>>]
    ELSE LET src == IF doc.hasItems THEN doc.items ELSE <<>>
             bad == FirstScalar(src, 1)
             upto == IF bad = 0 THEN Len(src) ELSE bad - 1
             decoded == [i \in 1..upto |->
                            IF src[i].kind = ""
                            THEN [src[i] EXCEPT !.kind = TrimSuffix(doc.kind, "List")]
                            ELSE src[i]]
         IN  IF bad # 0
                 THEN [err |-> "cannot unmarshal item into object", Items |-> decoded]
             ELSE IF doc.kind = ""
                 THEN [err |-> "Object 'Kind' is missing", Items |-> decoded]
             ELSE [err |-> "", Items |-> decoded]

\* Unmarshal into []map[string]any
UnmarshalMaps(doc, parses) ==
    IF ~parses THEN [err |-> "invalid syntax", items |-> <<>>]
    ELSE IF doc.top # "array" \/ FirstScalar(doc.items, 1) # 0
        THEN [err |-> "cannot unmarshal into []map[string]interface {}",
              items |-> <<>>]
    ELSE [err |-> "", items |-> doc.items]

\* Unmarshal into struct{ Items []map[string]any `json:"items"` }
UnmarshalUntypedList(doc, parses) ==
    IF ~parses THEN [err |-> "invalid syntax", items |-> <<>>]
    ELSE IF doc.top # "object"
               \/ (doc.hasItems /\ FirstScalar(doc.items, 1) # 0)
        THEN [err |-> "cannot unmarshal into struct { Items }", items |-> <<>>]
    ELSE [err |-> "", items |-> IF doc.hasItems THEN doc.items ELSE <<>>]

\* Unmarshal into []unstructured.Unstructured: every element decodes as an
\* Unstructured, which needs an object with a kind
UnmarshalUnstructureds(doc, parses) ==
    IF ~parses THEN [err |-> "invalid syntax", items |-> <<>>]
    ELSE IF \/ doc.top # "array"
            \/ \E i \in 1..Len(doc.items) :
                  ~IsObject(doc.items[i]) \/ doc.items[i].kind = ""
        THEN [err |-> "cannot unmarshal into []unstructured.Unstructured",
              items |-> <<>>]
    ELSE [err |-> "", items |-> doc.items]

\* encoding/json reads JSON only; the YAML decoder reads JSON too
ParsesAsJSON(doc) == doc.syntax = "json"
ParsesAsYAML(doc) == doc.syntax \in {"json", "yaml"}

\* utils.MaxErrorString(err, n)
MaxErrorString(err, n) == [msg |-> err, max |-> n]
Untruncated(err) == [msg |-> err, max |-> 0]

NoList == [nil |-> TRUE, Items |-> <<>>]
List(items) == [nil |-> FALSE, Items |-> items]
NoError == [kind |-> "nil"]
Loaded(items) == [list |-> List(items), err |-> NoError]
Failed(kind, path, errs) ==
    [list |-> NoList, err |-> [kind |-> kind, path |-> path, errs |-> errs]]

\* a variant that reports only the last shape's error
parseJSONListLastError(doc, path) ==
    LET first == UnmarshalList(doc, ParsesAsJSON(doc))
        second == UnmarshalMaps(doc, ParsesAsJSON(doc))
        third == UnmarshalUntypedList(doc, ParsesAsJSON(doc))
    IN  IF first.err = "" THEN Loaded(first.Items)
        ELSE IF second.err = "" THEN Loaded(first.Items \o second.items)
        ELSE IF third.err = "" THEN Loaded(first.Items \o third.items)
        ELSE Failed("JSON", path, <<MaxErrorString(third.err, 200)>>)

parseJSONList(doc, path) ==
    LET first == UnmarshalList(doc, ParsesAsJSON(doc))
        second == UnmarshalMaps(doc, ParsesAsJSON(doc))
        third == UnmarshalUntypedList(doc, ParsesAsJSON(doc))
    IN  IF first.err = "" THEN Loaded(first.Items)
        ELSE IF second.err = "" THEN Loaded(first.Items \o second.items)
        ELSE IF third.err = "" THEN Loaded(first.Items \o third.items)
        ELSE Failed("JSON", path,
                    <<MaxErrorString(first.err, 200),
                      MaxErrorString(second.err, 200),
                      MaxErrorString(third.err, 200)>>)

LoadResourcesFromFile(file, path) ==
    IF ~file.readable THEN Failed("read", path, <<>>)
    ELSE IF HasSuffix(path, ".json") THEN parseJSONList(file.doc, path)
    ELSE IF HasSuffix(path, ".yaml") \/ HasSuffix(path, ".yml")
        THEN LET first == UnmarshalList(file.doc, ParsesAsYAML(file.doc))
                 second == UnmarshalUnstructureds(file.doc, ParsesAsYAML(file.doc))
             IN  IF first.err = "" THEN Loaded(first.Items)
                 \* if iErr := yaml.Unmarshal(data, &items); err != nil
                 ELSE IF first.err # ""
                     THEN Failed("YAML", path,
                                 <<Untruncated(first.err)>>
                                 \o (IF second.err = "" THEN <<>>
                                     ELSE <<Untruncated(second.err)>>))
                 ELSE Loaded(second.items)
    ELSE Failed("unsupported data format", "", <<>>)

(***************************************************************************)
(* pkg/proxy/logs.go: LogsHandler.                                         *)
(***************************************************************************)
\* b.Layout(): the Layout the bundle was opened with
BundleLayout == defaultLayout

Request(pod, namespace, container, previous, ts) ==
    [pod |-> pod, namespace |-> namespace, container |-> container,
     previous |-> previous, timestamps |-> ts]

\* the first container status named like the container, 0 if there is none
RECURSIVE StatusIndex(_, _, _)
StatusIndex(statuses, container, i) ==
    IF i > Len(statuses) THEN 0
    ELSE IF statuses[i].Name = container THEN i
    ELSE StatusIndex(statuses, container, i + 1)

NoMeta == [podUID |-> "", configHash |-> "", restartCount |-> 0, err |-> FALSE]

\* lines 172-195: the scan of list.Items, from item i on, with the values
\* found so far; err is the failed conversion to v1.Pod
RECURSIVE ScanItems(_, _, _, _, _)
ScanItems(items, pod, container, i, meta) ==
    IF i > Len(items) THEN meta
    ELSE IF items[i].name # pod
        THEN ScanItems(items, pod, container, i + 1, meta)
    ELSE IF ~items[i].wellTyped THEN [meta EXCEPT !.err = TRUE]
    ELSE LET at == StatusIndex(items[i].containerStatuses, container, 1)
         IN  ScanItems(items, pod, container, i + 1,
                 [podUID |-> items[i].uid,
                  configHash |-> items[i].configHash,
                  restartCount |-> IF at = 0 THEN meta.restartCount
                                   ELSE items[i].containerStatuses[at].RestartCount,
                  err |-> FALSE])

PodMeta(items, pod, container) == ScanItems(items, pod, container, 1, NoMeta)

\* a variant of the guard below that also holds for one restart
HasEarlierRestartFromOne(restartCount) == restartCount > 0

\* line 221: the container has a log of an earlier restart to look for
HasEarlierRestart(restartCount) == restartCount > 1

\* lines 197-229
candidatePaths(l, r, meta) ==
    LET filename == r.pod \o "-" \o r.container \o ".log"
        podDir == r.namespace \o "_" \o r.pod \o "_" \o meta.podUID
        base == << JoinAll(<<PodLogs(l), r.namespace, filename>>),
                   JoinAll(<<ClusterResources(l), "pods/logs", r.namespace,
                             r.pod, r.container \o ".log">>) >>
    IN  IF r.previous # "true"
        THEN base \o
             << JoinAll(<<ClusterInfo(l), "dump", r.namespace, r.pod, "logs.txt">>),
                JoinAll(<<PodLogs(l), podDir, r.container,
                          Itoa(meta.restartCount) \o ".log">>),
                JoinAll(<<PodLogs(l), podDir, r.container,
                          meta.configHash \o ".log">>) >>
        ELSE base \o
             (IF HasEarlierRestart(meta.restartCount)
              THEN << JoinAll(<<PodLogs(l), podDir, r.container,
                                Itoa(meta.restartCount - 1) \o ".log">>) >>
              ELSE <<>>)
             \o << JoinAll(<<PreviousPodLogs(l), r.namespace, r.pod,
                             "previous.log">>) >>

\* afero.Exists(b, path) over the bundle's files
Exists(files, path) == path \in DOMAIN files

\* a variant without the break: every candidate is probed, the last hit wins
ProbeNoBreak(files, paths, i) ==
    LET hits == {j \in i..Len(paths) : Exists(files, paths[j])}
    IN  [probed |-> paths,
         podLogsPath |-> IF hits = {} THEN ""
                         ELSE paths[CHOOSE j \in hits : \A k \in hits : k <= j]]

\* lines 231-239: the candidates probed, in order, up to the first that exists
RECURSIVE Probe(_, _, _)
Probe(files, paths, i) ==
    IF i > Len(paths) THEN [probed |-> paths, podLogsPath |-> ""]
    ELSE IF Exists(files, paths[i])
        THEN [probed |-> SubSeq(paths, 1, i), podLogsPath |-> paths[i]]
    ELSE Probe(files, paths, i + 1)

NoResponse == [status |-> 0]

ErrorResponse(msg, meta, paths, probed) ==
    [status |-> 500, body |-> msg, podLogsPath |-> "",
     podUID |-> meta.podUID, configHash |-> meta.configHash,
     restartCount |-> meta.restartCount,
     candidatePaths |-> paths, probed |-> probed, read |-> <<>>]

\* The pod list file of a namespace in the bundle
PodFilePath(l, namespace) ==
    JoinAll(<<ClusterResources(l), "pods", namespace \o ".yaml">>)

\* a variant of the test below that lets a failed load through
LoadFailedNever(loaded) == FALSE

\* line 165: if err != nil
LoadFailed(loaded) == loaded.err.kind # "nil"

\* lines 153-280: the response to request r over the bundle
LogsHandler(pods, files, zone, r) ==
    LET l == BundleLayout
        podFilePath == PodFilePath(l, r.namespace)
        loaded == LoadResourcesFromFile(pods, podFilePath)
        meta == PodMeta(loaded.list.Items, r.pod, r.container)
        paths == candidatePaths(l, r, meta)
        found == Probe(files, paths, 1)
    IN  IF LoadFailed(loaded)
            THEN ErrorResponse("failed to load pod " \o r.pod \o " from path "
                               \o podFilePath, NoMeta, <<>>, <<>>)
        ELSE IF meta.err
            THEN ErrorResponse("failed to convert unstructured object to pod",
                               NoMeta, <<>>, <<>>)
        ELSE IF found.podLogsPath = ""
            \* lines 241-244: the candidates go to a debug log line only
            THEN [logged |-> <<"pod logs not found in the bundle", "paths", paths>>]
                 @@ ErrorResponse("pod logs not found in the bundle",
                                  meta, paths, found.probed)
        ELSE IF ~files[found.podLogsPath].readable
            THEN [ErrorResponse("read " \o found.podLogsPath, meta, paths,
                                found.probed)
                     EXCEPT !.read = <<found.podLogsPath>>]
        ELSE [status |-> 200,
              body |-> NormalizeTimestamps(files[found.podLogsPath].data,
                                           r.timestamps, zone),
              podLogsPath |-> found.podLogsPath,
              podUID |-> meta.podUID, configHash |-> meta.configHash,
              restartCount |-> meta.restartCount,
              candidatePaths |-> paths, probed |-> found.probed,
              read |-> <<found.podLogsPath>>]

(***************************************************************************)
(* pkg/bundle (resources): LoadConfigMap and LoadSecret.                   *)
(* A compact file is its path, whether it can be read, its syntax and the  *)
(* name, namespace and data it holds; data is a map, empty when the file   *)
(* has no data key.                                                        *)
(***************************************************************************)
CompactFile(path, readable, syntax, name, namespace, d) ==
    [path |-> path, readable |-> readable, syntax |-> syntax,
     name |-> name, namespace |-> namespace, data |-> d]

\* lines 323-332 and 357-366: the decoder is picked by the extension, JSON
\* for any extension that is not .yaml or .yml
UnmarshalCmOrSecret(file) ==
    LET parses == IF HasSuffix(file.path, ".yaml") \/ HasSuffix(file.path, ".yml")
                  THEN file.syntax \in {"json", "yaml"}
                  ELSE file.syntax = "json"
    IN  IF ~parses THEN [err |-> "cannot unmarshal", Name |-> "", Namespace |-> "",
                         Data |-> <<>>]
        ELSE [err |-> "", Name |-> file.name, Namespace |-> file.namespace,
              Data |-> file.data]

\* runtime.DefaultUnstructuredConverter.ToUnstructured of an object with only
\* ObjectMeta{Name, Namespace} set, and Data for a ConfigMap: an empty map is
\* left out (omitempty)
nilObject == [nil |-> TRUE]
ToUnstructured(name, namespace, d) ==
    IF d = <<>>
    THEN [nil |-> FALSE,
          Object |-> [metadata |-> [name |-> name, namespace |-> namespace,
                                    creationTimestamp |-> "null"]]]
    ELSE [nil |-> FALSE,
          Object |-> [metadata |-> [name |-> name, namespace |-> namespace,
                                    creationTimestamp |-> "null"],
                      data |-> d]]

\* lines 317-347
LoadConfigMap(file) ==
    LET cmStruct == UnmarshalCmOrSecret(file)
    IN  IF ~file.readable THEN [u |-> nilObject, err |-> "read " \o file.path]
        ELSE IF cmStruct.err # "" THEN [u |-> nilObject, err |-> cmStruct.err]
        ELSE [u |-> ToUnstructured(cmStruct.Name, cmStruct.Namespace, cmStruct.Data),
              err |-> ""]

\* a variant that copies the data as LoadConfigMap does
LoadSecretWithData(file) == LoadConfigMap(file)

\* lines 351-380
LoadSecret(file) ==
    LET secretData == UnmarshalCmOrSecret(file)
    IN  IF ~file.readable THEN [u |-> nilObject, err |-> "read " \o file.path]
        ELSE IF secretData.err # "" THEN [u |-> nilObject, err |-> secretData.err]
        ELSE [u |-> ToUnstructured(secretData.Name, secretData.Namespace, <<>>),
              err |-> ""]

(***************************************************************************)
(* Calls in flight: one goroutine per request, each running the handler    *)
(* (or LoadResourcesFromFile) over the one bundle and the one Layout.      *)
(***************************************************************************)
\* a variant in which the handler's variables are declared outside the
\* closure, one set for every call
FrameShared(c) == 1

\* logs.go lines 154-174: list, podUID, configHash, restartCount,
\* candidatePaths, podLogsPath and data are declared inside the closure, so
\* call c works on variables of its own
Frame(c) == c

EmptyFrame ==
    [list |-> <<>>, meta |-> NoMeta, paths |-> <<>>,
     found |-> [probed |-> <<>>, podLogsPath |-> ""], data |-> NoFile]

LogsCall(r) == [op |-> "LogsHandler", r |-> r]
LoadCall(path) == [op |-> "LoadResourcesFromFile", path |-> path]

\* where a call starts
FirstStep(call) == IF call.op = "LogsHandler" THEN "load" ELSE "readfile"

(***************************************************************************)
(* The inputs of the model.                                                *)
(***************************************************************************)
\* Pod documents of the namespace's pod list
Web1First  == PodDoc("", "web-1", "uid123", "",
                     <<ContainerStatus("app", 0)>>)
Web1Second == PodDoc("", "web-1", "uid456", "hash9",
                     <<ContainerStatus("sidecar", 1), ContainerStatus("app", 2)>>)
Web1Bare   == PodDoc("", "web-1", "uid789", "", <<>>)
Web1Broken == [PodDoc("", "web-1", "uid000", "", <<>>) EXCEPT !.wellTyped = FALSE]
PodCatalogue == {Web1First, Web1Second, Web1Bare, Web1Broken}

PodsFiles ==
    {NoFile}
    \cup {File(Doc("yaml", "object", "PodList", TRUE, items)) :
             items \in SeqsUpTo(PodCatalogue, MaxPods)}
    \cup {File(Doc("yaml", "array", "", TRUE, <<Web1First>>)),
          File(Doc("yaml", "scalar", "", FALSE, <<>>))}

\* Log files a bundle may hold, each with its bytes; the last is a path at
\* which something exists that cannot be read as a file
LogFile(path, bytes) == [path |-> path, readable |-> TRUE, data |-> bytes]
LogCatalogue ==
    { LogFile("k8s/pod-logs/default/web-1-app.log", "hello\n"),
      LogFile("k8s/cluster-resources/pods/logs/default/web-1/app.log",
              "2024-03-14T00:54:27Z started\nplain\n"),
      LogFile("k8s/cluster-info/dump/default/web-1/logs.txt", "dumped"),
      LogFile("k8s/pod-logs/default_web-1_uid123/app/0.log", "hello\n"),
      LogFile("k8s/pod-logs/default_web-1_uid456/app/2.log",
              "2024-03-14T00:54:27.123456Z restarted\n"),
      LogFile("k8s/pod-logs/default_web-1_uid456/app/1.log", "crashed\n"),
      LogFile("k8s/pod-logs/default_web-1_hash9/app/2.log", "static\n"),
      LogFile("k8s/pod-logs/default_web-1_uid456/app/hash9.log", "hashed\n"),
      LogFile("k8s/previous-pod-logs/default/web-1/previous.log", "before\n"),
      [path |-> "k8s/pod-logs/default/web-1-app.log", readable |-> FALSE,
       data |-> ""] }

LogBundles ==
    {[p \in {f.path : f \in S} |-> CHOOSE f \in S : f.path = p] :
        S \in {T \in SUBSET LogCatalogue :
                  /\ Cardinality(T) <= MaxLogFiles
                  /\ \A f, g \in T : f.path = g.path => f = g}}

\* Local zones of the process, in minutes east of UTC
Zones == {0, 60, -300}

Requests ==
    {Request(pod, "default", container, previous, ts) :
        pod \in {"web-1", "db-0"}, container \in {"app", "sidecar"},
        previous \in {"true", "false"}, ts \in {"true", ""}}

\* Resource files handed to LoadResourcesFromFile
Untyped(name) == PodDoc("", name, "", "", <<>>)
Typed(name) == PodDoc("Pod", name, "", "", <<>>)
DocItems == {Untyped("a"), Untyped("b"), Typed("a"), Typed("b"), ScalarItem}
Docs ==
    {Doc(syntax, "object", kind, TRUE, items) :
        syntax \in {"json", "yaml"}, kind \in {"", "PodList"},
        items \in SeqsUpTo(DocItems, MaxDocItems)}
    \cup {Doc(syntax, "object", kind, FALSE, <<>>) :
        syntax \in {"json", "yaml"}, kind \in {"", "PodList"}}
    \cup {Doc(syntax, "array", "", TRUE, items) :
        syntax \in {"json", "yaml"}, items \in SeqsUpTo(DocItems, MaxDocItems)}
    \cup {Doc(syntax, "scalar", "", FALSE, <<>>) : syntax \in {"json", "yaml"}}

LoadPaths == {"pods/default.json", "pods/default.yaml", "pods/default.yml",
              "pods/default.txt"}

\* Logs handed to the back-fill taken alone: up to MaxLines lines joined by
\* line-feeds
LogLines ==
    {"", "hello",
     "2024-03-14T00:54:27Z started",
     "2024-03-14T00:54:27.123456Z started",
     "2024-03-14T00:54:27.123456789Z started",
     "2024-03-14T00:54:27Z",
     "1970-01-01T01:00:00+01:00 hello"}
LogData == {JoinLines(ls) : ls \in SeqsUpTo(LogLines, MaxLines) \ {<<>>}}
TimestampsValues == {"true", "", "false"}

\* Files in the compact format
CompactPaths == {"secrets/default/a.json", "secrets/default/a.yaml"}
CompactData == {<<>>, [password |-> "hunter2"], [password |-> "swordfish"]}
CompactFiles ==
    {CompactFile(p, FALSE, "json", "", "", <<>>) : p \in CompactPaths}
    \cup {CompactFile(p, TRUE, syntax, name, "default", d) :
             p \in CompactPaths, syntax \in {"json", "yaml"},
             name \in {"a", "b"}, d \in CompactData}

\* Calls in flight and the bundles they run over
ConcRequests ==
    {Request("web-1", "default", container, previous, "") :
        container \in {"app", "sidecar"}, previous \in {"true", "false"}}
ConcCalls ==
    {LogsCall(r) : r \in ConcRequests}
    \cup {LoadCall(PodFilePath(BundleLayout, "default"))}
ConcPodsFiles ==
    {NoFile}
    \cup {File(Doc("yaml", "object", "PodList", TRUE, <<item>>)) :
             item \in {Web1First, Web1Second, Web1Broken}}
ConcPaths ==
    {"k8s/pod-logs/default/web-1-app.log",
     "k8s/pod-logs/default_web-1_uid456/app/2.log",
     "k8s/previous-pod-logs/default/web-1/previous.log"}
ConcBundles ==
    {b \in LogBundles : DOMAIN b \subseteq ConcPaths /\ Cardinality(DOMAIN b) <= 1}

(***************************************************************************)
(* The state machines. Each takes its inputs in its initial state and      *)
(* leaves the variables of the others alone.                               *)
(***************************************************************************)
NotRun == [done |-> FALSE]

IdleLayout == cfgFile = [state |-> "absent"] /\ layoutRes = NotRun
IdleLoad == resFile = [path |-> "", file |-> NoFile] /\ loadRes = NotRun
IdleLogs == podsFile = NoFile /\ logFiles = <<>> /\ resp = NoResponse
IdleNorm == data = "" /\ timestamps = "" /\ pass1 = NotRun /\ pass2 = NotRun
IdleFallback ==
    /\ bundlePath = "" /\ bundleCfg = [state |-> "absent"]
    /\ homeCfg = [state |-> "absent"] /\ fallbackRes = NotRun
IdleCompact == cmFiles = <<>> /\ cmRes = <<>>
IdleConc == calls = <<>> /\ frames = <<>>
IdleOthers == IdleFallback /\ IdleCompact /\ IdleConc

\* --- layout.go
InitLayout ==
    /\ cfgFile \in ConfigFiles
    /\ layoutRes = NotRun
    /\ tz = 0
    /\ IdleLoad /\ IdleLogs /\ IdleNorm /\ IdleOthers

LoadLayout ==
    /\ ~layoutRes.done
    /\ layoutRes' = [done |-> TRUE, layout |-> LoadLayoutFromConfig(cfgFile).layout,
                     err |-> LoadLayoutFromConfig(cfgFile).err]
    /\ UNCHANGED <<cfgFile, loadVars, logsVars, normVars, tz,
                 fallbackVars, compactVars, concVars>>

NextLayout == LoadLayout
SpecLayout == InitLayout /\ [][NextLayout]_vars

\* --- LoadResourcesFromFile
InitLoad ==
    /\ resFile \in {[path |-> p, file |-> f] :
                       p \in LoadPaths, f \in {NoFile} \cup {File(d) : d \in Docs}}
    /\ loadRes = NotRun
    /\ tz = 0
    /\ IdleLayout /\ IdleLogs /\ IdleNorm /\ IdleOthers

LoadResources ==
    /\ ~loadRes.done
    /\ LET got == LoadResourcesFromFile(resFile.file, resFile.path)
       IN  loadRes' = [done |-> TRUE, list |-> got.list, err |-> got.err]
    /\ UNCHANGED <<resFile, layoutVars, logsVars, normVars, tz,
                 fallbackVars, compactVars, concVars>>

NextLoad == LoadResources
SpecLoad == InitLoad /\ [][NextLoad]_vars

\* --- LogsHandler
InitLogs ==
    /\ podsFile \in PodsFiles
    /\ logFiles \in LogBundles
    /\ tz \in Zones
    /\ resp = NoResponse
    /\ IdleLayout /\ IdleLoad /\ IdleNorm /\ IdleOthers

\* The handler keeps nothing between requests: a run serves one request.
Serve(r) ==
    /\ resp = NoResponse
    /\ resp' = [request |-> r] @@ LogsHandler(podsFile, logFiles, tz, r)
    /\ UNCHANGED <<podsFile, logFiles, tz, layoutVars, loadVars, normVars,
                 fallbackVars, compactVars, concVars>>

NextLogs == \E r \in Requests : Serve(r)
SpecLogs == InitLogs /\ [][NextLogs]_vars

\* --- the back-fill taken alone
InitNorm ==
    /\ data \in LogData
    /\ timestamps \in TimestampsValues
    /\ tz \in Zones
    /\ pass1 = NotRun /\ pass2 = NotRun
    /\ IdleLayout /\ IdleLoad /\ IdleLogs /\ IdleOthers

NormalizeOnce ==
    /\ ~pass1.done
    /\ pass1' = [done |-> TRUE, out |-> NormalizeTimestamps(data, timestamps, tz)]
    /\ UNCHANGED <<data, timestamps, pass2, tz, layoutVars, loadVars, logsVars,
                 fallbackVars, compactVars, concVars>>

NormalizeAgain ==
    /\ pass1.done /\ ~pass2.done
    /\ pass2' = [done |-> TRUE,
                 out |-> NormalizeTimestamps(pass1.out, timestamps, tz)]
    /\ UNCHANGED <<data, timestamps, pass1, tz, layoutVars, loadVars, logsVars,
                 fallbackVars, compactVars, concVars>>

NextNorm == NormalizeOnce \/ NormalizeAgain
SpecNorm == InitNorm /\ [][NextNorm]_vars

\* --- LoadLayoutWithFallback
InitFallback ==
    /\ bundlePath \in {"", "bundle"}
    /\ bundleCfg \in IF bundlePath = "" THEN {[state |-> "absent"]}
                     ELSE FallbackFiles("custom/")
    /\ homeCfg \in FallbackFiles("home/") \cup {[state |-> "nohome"]}
    /\ fallbackRes = NotRun
    /\ tz = 0
    /\ IdleLayout /\ IdleLoad /\ IdleLogs /\ IdleNorm /\ IdleCompact /\ IdleConc

LoadWithFallback ==
    /\ ~fallbackRes.done
    /\ LET got == LoadLayoutWithFallback(bundlePath, bundleCfg, homeCfg)
       IN  fallbackRes' = [done |-> TRUE, layout |-> got.layout, err |-> got.err]
    /\ UNCHANGED <<bundlePath, bundleCfg, homeCfg, tz, layoutVars, loadVars,
                   logsVars, normVars, compactVars, concVars>>

NextFallback == LoadWithFallback
SpecFallback == InitFallback /\ [][NextFallback]_vars

\* --- LoadConfigMap and LoadSecret, each on each of two files
InitCompact ==
    /\ cmFiles \in [1..2 -> CompactFiles]
    /\ cmRes = [i \in 1..2 |-> [secret |-> NotRun, configMap |-> NotRun]]
    /\ tz = 0
    /\ IdleLayout /\ IdleLoad /\ IdleLogs /\ IdleNorm /\ IdleFallback /\ IdleConc

LoadSecretOf(i) ==
    /\ ~cmRes[i].secret.done
    /\ LET got == LoadSecret(cmFiles[i])
       IN  cmRes' = [cmRes EXCEPT ![i].secret =
                        [done |-> TRUE, u |-> got.u, err |-> got.err]]
    /\ UNCHANGED <<cmFiles, tz, layoutVars, loadVars, logsVars, normVars,
                   fallbackVars, concVars>>

LoadConfigMapOf(i) ==
    /\ ~cmRes[i].configMap.done
    /\ LET got == LoadConfigMap(cmFiles[i])
       IN  cmRes' = [cmRes EXCEPT ![i].configMap =
                        [done |-> TRUE, u |-> got.u, err |-> got.err]]
    /\ UNCHANGED <<cmFiles, tz, layoutVars, loadVars, logsVars, normVars,
                   fallbackVars, concVars>>

NextCompact == \E i \in 1..2 : LoadSecretOf(i) \/ LoadConfigMapOf(i)
SpecCompact == InitCompact /\ [][NextCompact]_vars

\* --- calls in flight. The bundle and the Layout are only read; a step of
\* call c reads and writes the frame Frame(c) and c's own response.
InitConc ==
    /\ podsFile \in ConcPodsFiles
    /\ logFiles \in ConcBundles
    /\ tz = 0
    /\ resp = NoResponse
    /\ \E cs \in [1..MaxCalls -> ConcCalls] :
          calls = [c \in 1..MaxCalls |->
                      [call |-> cs[c], pc |-> FirstStep(cs[c]),
                       overlapped |-> FALSE, out |-> NoResponse]]
    /\ frames = [c \in 1..MaxCalls |-> EmptyFrame]
    /\ IdleLayout /\ IdleLoad /\ IdleNorm /\ IdleFallback /\ IdleCompact

\* another call has started and not finished
OthersInFlight(c) ==
    \E d \in DOMAIN calls :
        d # c /\ calls[d].pc \notin {FirstStep(calls[d].call), "done"}

Goto(c, pc) ==
    [calls EXCEPT ![c].pc = pc,
                  ![c].overlapped = calls[c].overlapped \/ OthersInFlight(c)]
Finish(c, out) == [Goto(c, "done") EXCEPT ![c].out = out]

ConcUnchanged ==
    UNCHANGED <<podsFile, logFiles, tz, resp, layoutVars, loadVars, normVars,
                fallbackVars, compactVars>>

\* logs.go lines 163-168
StepLoad(c) ==
    /\ calls[c].pc = "load"
    /\ LET r == calls[c].call.r
           podFilePath == PodFilePath(BundleLayout, r.namespace)
           loaded == LoadResourcesFromFile(podsFile, podFilePath)
       IN  IF LoadFailed(loaded)
           THEN /\ calls' = Finish(c, ErrorResponse(
                        "failed to load pod " \o r.pod \o " from path "
                        \o podFilePath, NoMeta, <<>>, <<>>))
                /\ UNCHANGED frames
           ELSE /\ frames' = [frames EXCEPT ![Frame(c)].list = loaded.list.Items]
                /\ calls' = Goto(c, "lookup")
    /\ ConcUnchanged

\* logs.go lines 172-229
StepLookup(c) ==
    /\ calls[c].pc = "lookup"
    /\ LET r == calls[c].call.r
           meta == PodMeta(frames[Frame(c)].list, r.pod, r.container)
       IN  IF meta.err
           THEN /\ calls' = Finish(c, ErrorResponse(
                        "failed to convert unstructured object to pod",
                        NoMeta, <<>>, <<>>))
                /\ UNCHANGED frames
           ELSE /\ frames' = [frames EXCEPT
                       ![Frame(c)].meta = meta,
                       ![Frame(c)].paths = candidatePaths(BundleLayout, r, meta)]
                /\ calls' = Goto(c, "probe")
    /\ ConcUnchanged

\* logs.go lines 231-245
StepProbe(c) ==
    /\ calls[c].pc = "probe"
    /\ LET f == frames[Frame(c)]
           found == Probe(logFiles, f.paths, 1)
       IN  IF found.podLogsPath = ""
           THEN /\ calls' = Finish(c,
                        [logged |-> <<"pod logs not found in the bundle",
                                      "paths", f.paths>>]
                        @@ ErrorResponse("pod logs not found in the bundle",
                                         f.meta, f.paths, found.probed))
                /\ UNCHANGED frames
           ELSE /\ frames' = [frames EXCEPT ![Frame(c)].found = found]
                /\ calls' = Goto(c, "read")
    /\ ConcUnchanged

\* logs.go lines 248-278
StepRead(c) ==
    /\ calls[c].pc = "read"
    /\ LET r == calls[c].call.r
           f == frames[Frame(c)]
           podLogsPath == f.found.podLogsPath
       IN  calls' = Finish(c,
               IF ~logFiles[podLogsPath].readable
               THEN [ErrorResponse("read " \o podLogsPath, f.meta, f.paths,
                                   f.found.probed)
                        EXCEPT !.read = <<podLogsPath>>]
               ELSE [status |-> 200,
                     body |-> NormalizeTimestamps(logFiles[podLogsPath].data,
                                                  r.timestamps, tz),
                     podLogsPath |-> podLogsPath,
                     podUID |-> f.meta.podUID, configHash |-> f.meta.configHash,
                     restartCount |-> f.meta.restartCount,
                     candidatePaths |-> f.paths, probed |-> f.found.probed,
                     read |-> <<podLogsPath>>])
    /\ UNCHANGED frames
    /\ ConcUnchanged

\* layout_test.go lines 229-232: the file read into the call's data
StepReadFile(c) ==
    /\ calls[c].pc = "readfile"
    /\ frames' = [frames EXCEPT ![Frame(c)].data = podsFile]
    /\ calls' = Goto(c, "parse")
    /\ ConcUnchanged

\* layout_test.go lines 234-254: the data parsed by the extension's shapes
StepParse(c) ==
    /\ calls[c].pc = "parse"
    /\ calls' = Finish(c, LoadResourcesFromFile(frames[Frame(c)].data,
                                                calls[c].call.path))
    /\ UNCHANGED frames
    /\ ConcUnchanged

NextConc ==
    \E c \in DOMAIN calls :
        \/ StepLoad(c) \/ StepLookup(c) \/ StepProbe(c) \/ StepRead(c)
        \/ StepReadFile(c) \/ StepParse(c)
SpecConc == InitConc /\ [][NextConc]_vars

(***************************************************************************)
(* Claims about LoadResourcesFromFile.                                     *)
(***************************************************************************)
Untypeds(items) == \A i \in 1..Len(items) : IsObject(items[i]) /\ items[i].kind = ""
Typeds(items) == \A i \in 1..Len(items) : IsObject(items[i]) /\ items[i].kind # ""

IsJSONPath == HasSuffix(resFile.path, ".json")
IsYAMLPath == HasSuffix(resFile.path, ".yaml") \/ HasSuffix(resFile.path, ".yml")

\* The five supported encodings of a resource file
JSONTypedList ==
    /\ IsJSONPath /\ resFile.file.doc.syntax = "json"
    /\ resFile.file.doc.top = "object" /\ resFile.file.doc.kind = "PodList"
    /\ resFile.file.doc.hasItems /\ Typeds(resFile.file.doc.items)
JSONBareArray ==
    /\ IsJSONPath /\ resFile.file.doc.syntax = "json"
    /\ resFile.file.doc.top = "array" /\ Untypeds(resFile.file.doc.items)
JSONUntypedItems ==
    /\ IsJSONPath /\ resFile.file.doc.syntax = "json"
    /\ resFile.file.doc.top = "object" /\ resFile.file.doc.kind = ""
    /\ resFile.file.doc.hasItems /\ Untypeds(resFile.file.doc.items)
YAMLTypedList ==
    /\ IsYAMLPath /\ resFile.file.doc.syntax = "yaml"
    /\ resFile.file.doc.top = "object" /\ resFile.file.doc.kind = "PodList"
    /\ resFile.file.doc.hasItems /\ Typeds(resFile.file.doc.items)
YAMLBareSequence ==
    /\ IsYAMLPath /\ resFile.file.doc.syntax = "yaml"
    /\ resFile.file.doc.top = "array" /\ Untypeds(resFile.file.doc.items)

SupportedShape ==
    /\ resFile.file.readable
    /\ \/ JSONTypedList \/ JSONBareArray \/ JSONUntypedItems
       \/ YAMLTypedList \/ YAMLBareSequence

\* The list returned holds the source's items, as many and in their order
SameItemsInOrder ==
    /\ loadRes.err.kind = "nil"
    /\ ~loadRes.list.nil
    /\ Len(loadRes.list.Items) = Len(resFile.file.doc.items)
    /\ \A i \in 1..Len(resFile.file.doc.items) :
          loadRes.list.Items[i].name = resFile.file.doc.items[i].name

\* C1: a readable file in any of the three JSON shapes or the two YAML
\* shapes loads without error into a list with the source's item count, in
\* source order.
C1_EveryShapeLoads ==
    (loadRes.done /\ SupportedShape) => SameItemsInOrder

(***************************************************************************)
(* Claims about LogsHandler.                                               *)
(***************************************************************************)
Served == resp.status # 0
\* the pod list loaded and the matching pod converted: candidates were built
Resolved == Served /\ resp.candidatePaths # <<>>

UIDKeyed(r, uid, n) ==
    "k8s/pod-logs/" \o r.namespace \o "_" \o r.pod \o "_" \o uid \o "/"
    \o r.container \o "/" \o Itoa(n) \o ".log"
PodLogCandidate(r) ==
    "k8s/pod-logs/" \o r.namespace \o "/" \o r.pod \o "-" \o r.container \o ".log"
FailingPodCandidate(r) ==
    "k8s/cluster-resources/pods/logs/" \o r.namespace \o "/" \o r.pod \o "/"
    \o r.container \o ".log"
DumpCandidate(r) ==
    "k8s/cluster-info/dump/" \o r.namespace \o "/" \o r.pod \o "/logs.txt"
PreviousCandidate(r) ==
    "k8s/previous-pod-logs/" \o r.namespace \o "/" \o r.pod \o "/previous.log"

\* C2: for previous # "true" the candidates are, in order, the pod-logs
\* file, the failing-pod file, the cluster-info dump, the UID-keyed
\* <restartCount>.log and the config-hash-keyed <restartCount>.log.
C2_CurrentCandidates ==
    (Resolved /\ resp.request.previous # "true") =>
        resp.candidatePaths =
            << PodLogCandidate(resp.request),
               FailingPodCandidate(resp.request),
               DumpCandidate(resp.request),
               UIDKeyed(resp.request, resp.podUID, resp.restartCount),
               UIDKeyed(resp.request, resp.configHash, resp.restartCount) >>

\* C3, as stated: for previous = "true" the candidates are only the
\* UID-keyed <restartCount-1>.log (when restartCount > 1) and previous.log,
\* and nothing else is served.
C3_PreviousCandidatesOnly ==
    (Resolved /\ resp.request.previous = "true") =>
        /\ resp.candidatePaths =
              (IF resp.restartCount > 1
               THEN <<UIDKeyed(resp.request, resp.podUID, resp.restartCount - 1)>>
               ELSE <<>>)
              \o <<PreviousCandidate(resp.request)>>
        /\ resp.status = 200 =>
              resp.podLogsPath \in
                  {UIDKeyed(resp.request, resp.podUID, resp.restartCount - 1),
                   PreviousCandidate(resp.request)}

\* C3, amended: for previous = "true" the candidates are the pod-logs file
\* and the failing-pod file, then the UID-keyed <restartCount-1>.log when
\* restartCount > 1, then previous.log; with restartCount <= 1 the
\* UID-keyed candidate is omitted; nothing but a candidate is served.
C3_PreviousCandidates ==
    (Resolved /\ resp.request.previous = "true") =>
        /\ resp.candidatePaths =
              << PodLogCandidate(resp.request), FailingPodCandidate(resp.request) >>
              \o (IF resp.restartCount > 1
                  THEN <<UIDKeyed(resp.request, resp.podUID, resp.restartCount - 1)>>
                  ELSE <<>>)
              \o <<PreviousCandidate(resp.request)>>
        /\ resp.status = 200 =>
              \E i \in 1..Len(resp.candidatePaths) :
                  resp.podLogsPath = resp.candidatePaths[i]

\* A previous-log request for a container restarted once is served from
\* previous.log, no UID-keyed candidate having been built.
C3_Witness ==
    /\ Resolved /\ resp.request.previous = "true"
    /\ resp.restartCount = 1
    /\ resp.status = 200
    /\ resp.podLogsPath = PreviousCandidate(resp.request)
    /\ Len(resp.candidatePaths) = 3

ExistingCandidates ==
    {i \in 1..Len(resp.candidatePaths) : resp.candidatePaths[i] \in DOMAIN logFiles}
FirstExisting ==
    CHOOSE i \in ExistingCandidates : \A j \in ExistingCandidates : i <= j

\* C4: the candidates are probed in list order and the first that exists is
\* the one read and served; none after it is probed; with none existing all
\* are probed and nothing is read.
C4_FirstExistingWins ==
    Resolved =>
        IF ExistingCandidates = {}
        THEN /\ resp.probed = resp.candidatePaths
             /\ resp.read = <<>>
             /\ resp.status = 500
        ELSE /\ resp.probed = SubSeq(resp.candidatePaths, 1, FirstExisting)
             /\ resp.read = <<resp.candidatePaths[FirstExisting]>>
             /\ resp.status = 200 =>
                   /\ resp.podLogsPath = resp.candidatePaths[FirstExisting]
                   /\ resp.body = NormalizeTimestamps(
                          logFiles[resp.candidatePaths[FirstExisting]].data,
                          resp.request.timestamps, tz)

\* Two candidates exist, the first of them is not the head of the list, and
\* it is the one served.
C4_Witness ==
    /\ Resolved /\ resp.status = 200
    /\ Cardinality(ExistingCandidates) = 2
    /\ FirstExisting > 1
    /\ resp.podLogsPath = resp.candidatePaths[FirstExisting]

\* The items of the pod list named like the requested pod
Matches ==
    {i \in 1..Len(podsFile.doc.items) :
        podsFile.doc.items[i].name = resp.request.pod}
FirstMatch == podsFile.doc.items[CHOOSE i \in Matches : \A j \in Matches : i <= j]
RestartCountOf(item, container) ==
    LET named == {i \in 1..Len(item.containerStatuses) :
                     item.containerStatuses[i].Name = container}
    IN  IF named = {} THEN 0
        ELSE item.containerStatuses[CHOOSE i \in named : \A j \in named : i <= j]
                 .RestartCount

\* C5: the pod UID, config hash and restart count the candidates are built
\* from are those of the first item named like the requested pod.
C5_FirstMatchWins ==
    (Resolved /\ Matches # {}) =>
        /\ resp.podUID = FirstMatch.uid
        /\ resp.configHash = FirstMatch.configHash
        /\ resp.restartCount = RestartCountOf(FirstMatch, resp.request.container)

\* C6: a log file holding "hello\n" is served unmodified without
\* timestamps=true and as "1970-01-01T00:00:00Z hello\n" with it.
C6_HelloServed ==
    (Served /\ resp.status = 200 /\ logFiles[resp.podLogsPath].data = "hello\n") =>
        resp.body = IF resp.request.timestamps = "true"
                    THEN "1970-01-01T00:00:00Z hello\n"
                    ELSE "hello\n"

(***************************************************************************)
(* Claims about the timestamp back-fill.                                   *)
(***************************************************************************)
\* C7: the back-fill applied to its own output yields that output again.
C7_Idempotent == pass2.done => pass2.out = pass1.out

\* Lines known to start with a timestamp of the pattern, and lines known
\* not to
StampedLines == {"2024-03-14T00:54:27Z started",
                 "2024-03-14T00:54:27.123456Z started"}
FirstLine(d) == Split(d)[1]

\* C8: the payload is the file's bytes whenever timestamps is not "true",
\* and whenever it is "true" and the first line starts with a timestamp of
\* the pattern followed by a space, whatever the later lines are.
C8_PayloadUnchanged ==
    (pass1.done /\ (timestamps # "true" \/ FirstLine(data) \in StampedLines)) =>
        pass1.out = data

\* timestamps=true, a stamped first line followed by an unstamped one: the
\* payload is the input.
C8_Witness ==
    /\ pass1.done /\ timestamps = "true"
    /\ data = "2024-03-14T00:54:27.123456Z started\nhello"
    /\ pass1.out = data

(***************************************************************************)
(* Claims about the Layout.                                                *)
(***************************************************************************)
Overridden(v) == v # Absent /\ v # ""

\* the value a path accessor is to return for a document's field
ResolvedPath(doc, f, default) ==
    IF Overridden(doc.paths[f]) THEN doc.paths[f] ELSE default
ResolvedSkip(doc, f, default) ==
    IF doc.skip[f] # <<Absent>> /\ doc.skip[f] # <<>> THEN doc.skip[f] ELSE default

\* C9: for a document that parses, each path field and each skip list is
\* resolved on its own: a non-empty override as given, the built-in default
\* otherwise.
C9_FieldByField ==
    (layoutRes.done /\ cfgFile.state = "document") =>
        /\ layoutRes.err = ""
        /\ ClusterInfo(layoutRes.layout)
              = ResolvedPath(cfgFile.doc, "clusterInfo", "k8s/cluster-info")
        /\ ClusterResources(layoutRes.layout)
              = ResolvedPath(cfgFile.doc, "clusterResources", "k8s/cluster-resources")
        /\ PodLogs(layoutRes.layout)
              = ResolvedPath(cfgFile.doc, "podLogs", "k8s/pod-logs")
        /\ PreviousPodLogs(layoutRes.layout)
              = ResolvedPath(cfgFile.doc, "previousPodLogs", "k8s/previous-pod-logs")
        /\ ConfigMaps(layoutRes.layout)
              = ResolvedPath(cfgFile.doc, "configMaps",
                             "k8s/cluster-resources/configmaps")
        /\ Secrets(layoutRes.layout)
              = ResolvedPath(cfgFile.doc, "secrets", "k8s/cluster-resources/secrets")
        /\ SkipResources(layoutRes.layout)
              = ResolvedSkip(cfgFile.doc, "resources", DefaultSkipResources)
        /\ SkipDirs(layoutRes.layout)
              = ResolvedSkip(cfgFile.doc, "dirs", DefaultSkipDirs)

\* A document overriding only clusterInfo, and a document overriding only
\* the resources skip list, have been loaded.
C9_Witness ==
    /\ layoutRes.done /\ cfgFile.state = "document"
    /\ cfgFile.doc.paths.clusterInfo = "custom/clusterInfo"
    /\ \A f \in PathFields \ {"clusterInfo"} : cfgFile.doc.paths[f] = Absent
    /\ \A f \in SkipFields : cfgFile.doc.skip[f] = <<Absent>>
    /\ ClusterInfo(layoutRes.layout) = "custom/clusterInfo"
    /\ PodLogs(layoutRes.layout) = "k8s/pod-logs"
    /\ SkipDirs(layoutRes.layout) = DefaultSkipDirs

AllDefaults(l) ==
    /\ ClusterInfo(l) = "k8s/cluster-info"
    /\ ClusterResources(l) = "k8s/cluster-resources"
    /\ PodLogs(l) = "k8s/pod-logs"
    /\ PreviousPodLogs(l) = "k8s/previous-pod-logs"
    /\ ConfigMaps(l) = "k8s/cluster-resources/configmaps"
    /\ Secrets(l) = "k8s/cluster-resources/secrets"
    /\ SkipResources(l) =
          << "custom-resource-definitions.json", "pod-disruption-budgets-info.json",
             "resources.json", "groups.json", "namespaces.json",
             "mutatingwebhookconfigurations.yaml",
             "validatingwebhookconfigurations.yaml" >>
    /\ SkipDirs(l) = << "apiservices", "auth-cani-list", "pod-disruption-budgets" >>

\* C10: with no document at the path, LoadLayoutFromConfig returns no error
\* and a Layout whose six paths and two skip lists are the defaults.
C10_AbsentIsDefault ==
    (layoutRes.done /\ cfgFile.state = "absent") =>
        /\ layoutRes.err = ""
        /\ layoutRes.layout.type # "nil"
        /\ AllDefaults(layoutRes.layout)

\* The load of a path that holds nothing has returned.
C10_Witness ==
    /\ layoutRes.done /\ cfgFile.state = "absent"
    /\ layoutRes.layout = defaultLayout

(***************************************************************************)
(* Claims about LoadLayoutWithFallback.                                    *)
(***************************************************************************)
\* what a Layout answers, accessor by accessor
LayoutValues(l) ==
    <<ClusterInfo(l), ClusterResources(l), PodLogs(l), PreviousPodLogs(l),
      ConfigMaps(l), Secrets(l), SkipResources(l), SkipDirs(l)>>

\* a level yields a configuration when its config.yaml exists and parses
BundleYields == bundlePath # "" /\ bundleCfg.state = "document"
HomeYields == homeCfg.state = "document"

\* C11: the bundle's configuration wins when the bundle level yields one;
\* when it yields none (no config.yaml, or one that fails to load) and the
\* home level yields one, the returned Layout answers with the home
\* configuration's values; the defaults are returned only when neither level
\* yields a configuration.
C11_FallsThrough ==
    fallbackRes.done =>
        /\ fallbackRes.err = ""
        /\ BundleYields =>
              LayoutValues(fallbackRes.layout)
                = LayoutValues(configLayout(UnmarshalLayoutConfig(bundleCfg.doc)))
        /\ (~BundleYields /\ HomeYields) =>
              LayoutValues(fallbackRes.layout)
                = LayoutValues(configLayout(UnmarshalLayoutConfig(homeCfg.doc)))
        /\ fallbackRes.layout = defaultLayout => (~BundleYields /\ ~HomeYields)

(***************************************************************************)
(* Claims about the failures of LoadResourcesFromFile.                     *)
(***************************************************************************)
\* the parse errors of the shapes tried for the file's extension, in the
\* order they are tried
JSONAttempts ==
    LET doc == resFile.file.doc
    IN  <<UnmarshalList(doc, ParsesAsJSON(doc)).err,
          UnmarshalMaps(doc, ParsesAsJSON(doc)).err,
          UnmarshalUntypedList(doc, ParsesAsJSON(doc)).err>>
YAMLAttempts ==
    LET doc == resFile.file.doc
    IN  <<UnmarshalList(doc, ParsesAsYAML(doc)).err,
          UnmarshalUnstructureds(doc, ParsesAsYAML(doc)).err>>
Attempts == IF IsJSONPath THEN JSONAttempts ELSE YAMLAttempts

\* the file is readable, has a supported extension and none of the shapes
\* tried for that extension parses it
NoKnownShape ==
    /\ resFile.file.readable
    /\ IsJSONPath \/ IsYAMLPath
    /\ \A i \in 1..Len(Attempts) : Attempts[i] # ""

\* C12: a readable .json / .yaml / .yml file that parses as none of the
\* shapes tried for its extension returns no list and an aggregate error
\* that names the path and carries the error of every attempt in order:
\* three for JSON, each cut to 200 characters, two for YAML.
C12_AggregateCarriesAll ==
    (loadRes.done /\ NoKnownShape) =>
        /\ loadRes.list.nil
        /\ loadRes.err.kind = (IF IsJSONPath THEN "JSON" ELSE "YAML")
        /\ loadRes.err.path = resFile.path
        /\ Len(loadRes.err.errs) = (IF IsJSONPath THEN 3 ELSE 2)
        /\ \A i \in 1..Len(Attempts) :
              /\ loadRes.err.errs[i].msg = Attempts[i]
              /\ IsJSONPath => loadRes.err.errs[i].max = 200

\* a JSON file that is well-formed JSON and still parses as no shape: the
\* three attempts fail with errors that are not all the same
C12_Witness ==
    /\ loadRes.done /\ NoKnownShape /\ IsJSONPath
    /\ resFile.file.doc.syntax = "json"
    /\ loadRes.err.kind = "JSON"
    /\ JSONAttempts[1] # JSONAttempts[3]

\* C13: a file whose extension is none of .json, .yaml, .yml fails with an
\* unsupported-format error that names the path; no shape is tried and no
\* list is returned.
C13_UnsupportedNamesPath ==
    (loadRes.done /\ resFile.file.readable /\ ~IsJSONPath /\ ~IsYAMLPath) =>
        /\ loadRes.list.nil
        /\ loadRes.err.kind = "unsupported data format"
        /\ loadRes.err.errs = <<>>
        /\ loadRes.err.path = resFile.path

(***************************************************************************)
(* Claims about the failures of LogsHandler.                               *)
(***************************************************************************)
\* the text s holds the text sub
Contains(s, sub) ==
    \E i \in 1..(Len(s) - Len(sub) + 1) : SubSeq(s, i, i + Len(sub) - 1) = sub

\* C14: when no candidate exists the request fails, no log byte is read or
\* returned, the failure names the pod and the container, and it carries the
\* ordered list of the candidates tried (in its text or in the line logged
\* with it).
C14_NotFoundNamesAll ==
    (Resolved /\ ExistingCandidates = {}) =>
        /\ resp.status = 500
        /\ resp.read = <<>>
        /\ resp.probed = resp.candidatePaths
        /\ \/ \A i \in 1..Len(resp.candidatePaths) :
                  Contains(resp.body, resp.candidatePaths[i])
           \/ resp.logged[3] = resp.candidatePaths
        /\ Contains(resp.body, resp.request.pod)
        /\ Contains(resp.body, resp.request.container)

(***************************************************************************)
(* Claims about LoadConfigMap and LoadSecret.                              *)
(***************************************************************************)
\* the compact file decodes: LoadSecret and LoadConfigMap return a record
Decodes(i) == cmFiles[i].readable /\ UnmarshalCmOrSecret(cmFiles[i]).err = ""

\* C15: two secret files that agree on name and namespace yield identical
\* records whatever their data, a secret's record holding its name and
\* namespace and no data; a configmap's record holds name, namespace and the
\* file's data map.
C15_SecretIgnoresData ==
    /\ \A i \in DOMAIN cmRes, j \in DOMAIN cmRes :
          (/\ cmRes[i].secret.done /\ cmRes[j].secret.done
           /\ Decodes(i) /\ Decodes(j)
           /\ cmFiles[i].name = cmFiles[j].name
           /\ cmFiles[i].namespace = cmFiles[j].namespace)
          => /\ cmRes[i].secret.err = ""
             /\ cmRes[i].secret.u = cmRes[j].secret.u
             /\ DOMAIN cmRes[i].secret.u.Object = {"metadata"}
             /\ cmRes[i].secret.u.Object.metadata.name = cmFiles[i].name
             /\ cmRes[i].secret.u.Object.metadata.namespace = cmFiles[i].namespace
    /\ \A i \in DOMAIN cmRes :
          (cmRes[i].configMap.done /\ Decodes(i))
          => /\ cmRes[i].configMap.err = ""
             /\ cmRes[i].configMap.u.Object.metadata.name = cmFiles[i].name
             /\ cmRes[i].configMap.u.Object.metadata.namespace = cmFiles[i].namespace
             /\ IF cmFiles[i].data = <<>>
                THEN DOMAIN cmRes[i].configMap.u.Object = {"metadata"}
                ELSE cmRes[i].configMap.u.Object.data = cmFiles[i].data

\* Two files of one name and namespace with different data, both loaded as
\* secrets into one record, the first also loaded as a configmap with its
\* data.
C15_Witness ==
    /\ cmRes # <<>>
    /\ cmRes[1].secret.done /\ cmRes[2].secret.done /\ cmRes[1].configMap.done
    /\ Decodes(1) /\ Decodes(2)
    /\ cmFiles[1].name = cmFiles[2].name
    /\ cmFiles[1].data # <<>> /\ cmFiles[2].data # <<>>
    /\ cmFiles[1].data # cmFiles[2].data
    /\ cmRes[1].secret.u = cmRes[2].secret.u
    /\ cmRes[1].configMap.u.Object.data = cmFiles[1].data

(***************************************************************************)
(* Claims about calls in flight.                                           *)
(***************************************************************************)
\* what a call returns when it runs alone over the bundle
Alone(call) ==
    IF call.op = "LogsHandler" THEN LogsHandler(podsFile, logFiles, tz, call.r)
    ELSE LoadResourcesFromFile(podsFile, call.path)

\* C16: whatever the interleaving of the calls in flight, a call that has
\* finished has returned what it returns when run alone over the same
\* bundle and Layout.
C16_NoInterference ==
    \A c \in DOMAIN calls : calls[c].pc = "done" => calls[c].out = Alone(calls[c].call)

\* Two log requests for different containers have both been served from a
\* log file, each having taken steps while the other was in flight.
C16_Witness ==
    /\ calls # <<>>
    /\ calls[1].pc = "done" /\ calls[2].pc = "done"
    /\ calls[1].overlapped /\ calls[2].overlapped
    /\ calls[1].call.op = "LogsHandler" /\ calls[2].call.op = "LogsHandler"
    /\ calls[1].call.r.container # calls[2].call.r.container
    /\ calls[1].out.status = 200 /\ calls[2].out.status = 200

(***************************************************************************)
(* Claims about the pod lookup of LogsHandler.                             *)
(***************************************************************************)
\* the pod list loaded and every item named like the pod converts
LookedUp ==
    /\ Served /\ podsFile.readable
    /\ LoadResourcesFromFile(podsFile,
            PodFilePath(BundleLayout, resp.request.namespace)).err.kind = "nil"
    /\ \A i \in Matches : podsFile.doc.items[i].wellTyped

\* C17: with no item named like the pod, podUID and configHash are empty
\* and restartCount is 0; with a matching pod whose container statuses name
\* no such container, restartCount is 0; either way the lookup does not fail
\* the request: the candidates are built from those values, the UID-keyed
\* ones included, and probed. (What the hash-keyed candidate is named is
\* C2's matter; here it only has to be there.)
C17_LookupMissKeepsZero ==
    LookedUp =>
        /\ Matches = {} =>
              /\ resp.podUID = "" /\ resp.configHash = ""
              /\ resp.restartCount = 0
              /\ resp.request.previous # "true" =>
                    /\ Len(resp.candidatePaths) = 5
                    /\ resp.candidatePaths[4] = UIDKeyed(resp.request, "", 0)
        /\ (/\ Matches # {}
            /\ \A k \in 1..Len(FirstMatch.containerStatuses) :
                  FirstMatch.containerStatuses[k].Name # resp.request.container)
              => resp.restartCount = 0
        /\ resp.candidatePaths # <<>>
        /\ resp.probed # <<>>

\* the namespace's pod list is missing or unreadable, or it is a document of
\* no supported shape
PodsFileUnusable == ~podsFile.readable \/ podsFile.doc.top = "scalar"
PodsFileLoads ==
    LoadResourcesFromFile(podsFile,
        PodFilePath(BundleLayout, resp.request.namespace)).err.kind = "nil"

\* C18: log bytes are served only when the namespace's pod list has loaded;
\* when that file is missing, unreadable or of no supported shape the
\* request fails naming the pod and the file, before any candidate is built,
\* probed or read, whatever log files the bundle holds.
C18_LoadBeforeProbe ==
    Served =>
        /\ resp.status = 200 => PodsFileLoads
        /\ PodsFileUnusable =>
              /\ resp.status = 500
              /\ resp.body = "failed to load pod " \o resp.request.pod
                             \o " from path k8s/cluster-resources/pods/"
                             \o resp.request.namespace \o ".yaml"
              /\ resp.candidatePaths = <<>>
              /\ resp.probed = <<>>
              /\ resp.read = <<>>

\* The pod list is of no supported shape, the bundle holds the requested
\* container's pod-logs file, readable, and the request has failed.
C18_Witness ==
    /\ Served /\ podsFile.readable /\ podsFile.doc.top = "scalar"
    /\ PodLogCandidate(resp.request) \in DOMAIN logFiles
    /\ logFiles[PodLogCandidate(resp.request)].readable
    /\ resp.status = 500

====
